---- MODULE Spec2Model ----
(***************************************************************************)
(* plot_embedding of "Train error vs Test error.ipynb" (lines 502-546):    *)
(* normalisation of a 2-D embedding, per-row annotations, the greedy scan  *)
(* that drops points too close to an already shown one, and the figure.    *)
(*                                                                         *)
(* Floats are exact fractions [n, d] with d > 0; d = 0 is nan.  The inputs *)
(* are small integers, for which the float results of lines 504 and 518    *)
(* that matter here agree with the exact ones ((1/50)^2 + (3/50)^2 ==      *)
(* 4e-3 holds in IEEE double as it does exactly).                          *)
(***************************************************************************)
EXTENDS Integers, Sequences, FiniteSets, TLC

MaxN == 3        \* most rows of X
MaxRuns == 2     \* most calls of plot_embedding on the same X
NAlphas == 3     \* length of alphas in the sweep (60 in the notebook)
MaxScore == 2    \* scores returned by enet.score are among 0..MaxScore

ThreshNum == 4       \* 4e-3 = ThreshNum / ThreshDen
ThreshDen == 1000

----------------------------------------------------------------------------
(* Floats *)

NaN == [n |-> 0, d |-> 0]

F(k) == [n |-> k, d |-> 1]

IsNaN(a) == a.d = 0

\* a - b
Sub(a, b) ==
    IF IsNaN(a) \/ IsNaN(b) THEN NaN
    ELSE IF a.d = b.d THEN [n |-> a.n - b.n, d |-> a.d]
    ELSE [n |-> a.n * b.d - b.n * a.d, d |-> a.d * b.d]

\* a / b for b >= 0.  b = 0 is reached only as 0 / 0 (a constant column has
\* v - min = 0 in every row), which numpy evaluates to nan with a warning.
Div(a, b) ==
    IF IsNaN(a) \/ IsNaN(b) \/ b.n = 0 THEN NaN
    ELSE [n |-> a.n * b.d, d |-> a.d * b.n]

\* a < b; false when either side is nan
FracLess(a, b) ==
    /\ ~IsNaN(a)
    /\ ~IsNaN(b)
    /\ IF a.d = b.d THEN a.n < b.n ELSE a.n * b.d < b.n * a.d

\* f < 4e-3, i.e. ThreshDen * f.n < ThreshNum * f.d, without the large product
\* (LessThreshOrEqual is the comparison written as <=)
LessThreshOrEqual(f) ==
    /\ ~IsNaN(f)
    /\ f.n <= (ThreshNum * f.d) \div ThreshDen

LessThresh(f) ==
    /\ ~IsNaN(f)
    /\ LET T == ThreshNum * f.d
       IN  \/ f.n < T \div ThreshDen
           \/ (T % ThreshDen # 0 /\ f.n = T \div ThreshDen)

----------------------------------------------------------------------------
(* Inputs *)

\* rows an embedding may contain
Pts ==
    { <<F(0), F(0)>>, <<F(1), F(1)>>, <<F(1), F(3)>>, <<F(3), F(3)>>,
      <<F(49), F(49)>>, <<F(50), F(50)>>, <<F(50), F(0)>>, <<F(0), F(50)>>,
      <<NaN, F(0)>> }

Matrices == UNION { [1..n -> Pts] : n \in 1..MaxN }

\* row counts of the global digits dataset
DigitsRows == 1..(MaxN + 1)

\* datasets.load_digits(n_class=6): the rows come in the order 0, 1, ..., 5,
\* 0, 1, ...
NClass == 6

DatasetOrder(d) == [k \in 1..d |-> (k - 1) % NClass]

----------------------------------------------------------------------------
(* numpy helpers *)

Column(M, c) == [k \in 1..Len(M) |-> M[k][c]]

HasNaN(s) == \E k \in 1..Len(s) : IsNaN(s[k])

\* np.min / np.max of a non-empty vector: nan as soon as one element is nan
np_min(s) ==
    IF HasNaN(s) THEN NaN
    ELSE s[CHOOSE k \in 1..Len(s) : \A j \in 1..Len(s) : ~FracLess(s[j], s[k])]

np_max(s) ==
    IF HasNaN(s) THEN NaN
    ELSE s[CHOOSE k \in 1..Len(s) : \A j \in 1..Len(s) : ~FracLess(s[k], s[j])]

\* x_min, x_max = np.min(X, 0), np.max(X, 0)
x_min(M) == <<np_min(Column(M, 1)), np_min(Column(M, 2))>>
x_max(M) == <<np_max(Column(M, 1)), np_max(Column(M, 2))>>

\* one element of (X - x_min) / (x_max - x_min)
RescaleNoShift(v, lo, hi) == Div(v, Sub(hi, lo))

RescaleByMax(v, lo, hi) == Div(Sub(v, lo), hi)

Rescale(v, lo, hi) == Div(Sub(v, lo), Sub(hi, lo))

\* X = (X - x_min) / (x_max - x_min)
Normalized(M) ==
    LET lo == x_min(M)
        hi == x_max(M)
    IN  [k \in 1..Len(M) |->
            <<Rescale(M[k][1], lo[1], hi[1]), Rescale(M[k][2], lo[2], hi[2])>>]

\* np.sum((p - q) ** 2) for two points
Dist2(p, q) ==
    LET dx == Sub(p[1], q[1])
        dy == Sub(p[2], q[2])
    IN  IF IsNaN(dx) \/ IsNaN(dy) THEN NaN
        ELSE [n |-> dx.n * dx.n * dy.d * dy.d + dy.n * dy.n * dx.d * dx.d,
              d |-> dx.d * dx.d * dy.d * dy.d]

\* dist = np.sum((X[i] - shown_images) ** 2, 1)
Dist(p, shown) == [k \in 1..Len(shown) |-> Dist2(p, shown[k])]

\* if np.min(dist) < 4e-3: continue
\* (TooCloseToLast compares with the last shown point only)
TooCloseToLast(p, shown) == LessThresh(Dist2(p, shown[Len(shown)]))

TooClose(p, shown) == LessThresh(np_min(Dist(p, shown)))

\* np.array([[1., 1.]])
Sentinel == <<F(1), F(1)>>

\* str() of a non-negative integer
Digit == <<"0", "1", "2", "3", "4", "5", "6", "7", "8", "9">>

RECURSIVE Str(_)
Str(k) == IF k < 10 THEN Digit[k + 1] ELSE Str(k \div 10) \o Digit[(k % 10) + 1]

\* plt.cm.Set1: a table of Set1N colours; a float x selects entry
\* int(x * Set1N), and x >= 1 selects the last entry
Set1N == 9

Set1(x) == IF x.n >= x.d THEN Set1N - 1 ELSE (x.n * Set1N) \div x.d

\* y[i] / 10.
ColorArgModulo(label) == [n |-> label % 10, d |-> 10]

ColorArg(label) == [n |-> label, d |-> 10]

\* the dict appended for row k (0-based) of M; t is digits.target, yy is y
AnnoOfIndexText(M, t, yy, k) ==
    [x |-> M[k + 1][1], y |-> M[k + 1][2], text |-> Str(k),
     showarrow |-> FALSE,
     font |-> [size |-> 11, color |-> Set1(ColorArg(yy[k + 1]))]]

AnnoOf(M, t, yy, k) ==
    [x |-> M[k + 1][1], y |-> M[k + 1][2], text |-> Str(t[k + 1]),
     showarrow |-> FALSE,
     font |-> [size |-> 11, color |-> Set1(ColorArg(yy[k + 1]))]]

\* the caller's array after line 504, which binds the local name X to a new
\* array
ArgNormalizedInPlace(M) == Normalized(M)

ArgAfterCall(M) == M

\* range(0, len(shown_images)) of the inner loop
InnerRangeShort(shown) == Len(shown) - 1

InnerRange(shown) == Len(shown)

\* range(X.shape[0]) of the annotation loop
AnnoRangeShort(M) == Len(M) - 1

AnnoRange(M) == Len(M)

\* range(digits.data.shape[0]) of the scan loop
ScanRangeOfX(M, d) == Len(M)

ScanRange(M, d) == d

----------------------------------------------------------------------------
(* State *)

VARIABLES
    X,             \* the argument: the raw embedding, N rows
    digits,        \* global: digits.data.shape[0] == len(digits.target)
    target,        \* global: digits.target
    y,             \* global: y (line 481: y = digits.target)
    pc,            \* "ready", "anno", "scan", "done", "error"
    Xn,            \* the local X after line 504
    anno,          \* list of annotations
    shown_images,  \* array of shown points
    it,            \* position of the running for loop's range iterator
    i,             \* the loop variable i
    x_, y_,        \* coordinate lists of the marker trace
    bound,         \* whether x_ and y_ have been assigned
    kept,          \* history: indices of the rows appended to shown_images
    tested,        \* history: indices of the rows compared on line 518
    fig,           \* the returned figure
    err,           \* the exception raised
    calls,         \* number of calls made
    prev,          \* outcome of the previous call
    spc,           \* position in the "Compute train and test errors" cell
    enet,          \* the estimator: its alpha and what it was last fitted on
    train_errors,  \* list of train scores
    test_errors,   \* list of test scores
    sweep_i,       \* number of alphas the for loop has consumed
    alpha_optim,   \* alphas[i_alpha_optim]
    coef_,         \* the fit that produced coef_
    scored,        \* history: the fit each pair of scores was taken from
    sweep_fig,     \* fig of the "Plot Results" cells
    img,           \* the gallery array, a list of rows
    row_it,        \* position of the range iterator of the loop over i
    col_it,        \* position of the range iterator of the loop over j
    ix, iy,        \* first row and first column of the tile
    used,          \* history: the sample indices read from X
    gpc            \* position in the gallery cell, or the exception raised

sweep_vars == <<spc, enet, train_errors, test_errors, sweep_i, alpha_optim,
                coef_, scored, sweep_fig>>

plot_vars == <<X, digits, target, y, pc, Xn, anno, shown_images, it, i, x_, y_,
               bound, kept, tested, fig, err, calls, prev>>

gallery_vars == <<img, row_it, col_it, ix, iy, used, gpc>>

vars == <<plot_vars, sweep_vars, gallery_vars>>

NoFig == [data |-> <<>>, layout |-> [annotations |-> <<>>]]

NoPrev == [pc |-> "none", fig |-> NoFig, err |-> "", kept |-> <<>>,
           shown_images |-> <<>>]

\* shown_images = np.array([[1., 1.]]): a new array in every call, whatever
\* an earlier call (p) left behind
NewShownShared(p) ==
    IF p.shown_images = <<>> THEN <<Sentinel>> ELSE p.shown_images

NewShown(p) == <<Sentinel>>

\* np.logspace(lo, hi, n): n increasing values; element k (0-based) is
\* 10 ** (lo + (hi - lo) * k / (n - 1)), held here as its exponent times n - 1
LogSpace(lo, hi, n) == [k \in 1..n |-> lo * (n - 1) + (hi - lo) * (k - 1)]

alphas == LogSpace(-5, 1, NAlphas)

Scores == 0..MaxScore

\* linear_model.ElasticNet(l1_ratio=0.7): alpha has its default 1.0 = 10 ** 0
NewEnet == [alpha |-> 0, fit_alpha |-> 0, fit_data |-> "none"]

\* enet.set_params(alpha=a)
SetParamsIgnored(e, a) == e

SetParams(e, a) == [e EXCEPT !.alpha = a]

\* enet.fit(data, ...)
Fit(e, data) == [e EXCEPT !.fit_alpha = e.alpha, !.fit_data = data]

\* the last index (0-based) of the largest element
ArgMaxLast(s) ==
    (CHOOSE k \in 1..Len(s) :
        /\ \A j \in 1..Len(s) : s[j] <= s[k]
        /\ \A j \in (k + 1)..Len(s) : s[j] < s[k]) - 1

\* np.argmax: the first index (0-based) of the largest element
ArgMax(s) ==
    (CHOOSE k \in 1..Len(s) :
        /\ \A j \in 1..Len(s) : s[j] <= s[k]
        /\ \A j \in 1..(k - 1) : s[j] < s[k]) - 1

NoCoef == [alpha |-> 0, data |-> "none"]

\* an axis of a new figure: no title, linear, with grid
NewAxis == [title |-> "", type |-> "linear", showgrid |-> TRUE]

\* tools.make_subplots(rows, cols): no trace; cell (r, c) of the grid has
\* the axes xaxis<k>, yaxis<k> with k = (r - 1) * cols + c
MakeSubplots(rows, cols) ==
    [data |-> <<>>,
     rows |-> rows,
     cols |-> cols,
     xaxis |-> [k \in 1..(rows * cols) |-> NewAxis],
     yaxis |-> [k \in 1..(rows * cols) |-> NewAxis]]

\* go.Scatter(x=..., y=..., name=...): not yet placed on axes
Scatter(xs, ys, name) == [x |-> xs, y |-> ys, name |-> name, axis |-> 0]

\* fig.append_trace(p, row, col): the trace is drawn on the axes of the cell,
\* its x values along xaxis<k> and its y values along yaxis<k>
AppendTrace(f, p, row, col) ==
    [f EXCEPT !.data = Append(@, [p EXCEPT !.axis = (row - 1) * f.cols + col])]

\* np.max of a list of scores
MaxOf(s) == CHOOSE m \in {s[k] : k \in 1..Len(s)} :
                \A k \in 1..Len(s) : s[k] <= m

\* lines 185-224: the figure of the "Plot Results" cells
PlotResults(a, tr, te, opt, c) ==
    LET f0 == MakeSubplots(2, 1)
        f1 == AppendTrace(f0, Scatter(a, tr, "Train"), 1, 1)
        f2 == AppendTrace(f1, Scatter(a, te, "Test"), 1, 1)
        f3 == AppendTrace(f2, Scatter(<<opt, opt>>, <<0, MaxOf(te)>>,
                                      "Optimum on test"), 1, 1)
        f4 == [f3 EXCEPT !.yaxis[1].title = "Regularization parameter",
                         !.yaxis[1].showgrid = FALSE]
        f5 == [f4 EXCEPT !.xaxis[1].title = "Performance",
                         !.xaxis[1].showgrid = FALSE,
                         !.xaxis[1].type = "log"]
        f6 == AppendTrace(f5, Scatter(<<>>, "coef", "True coef"), 2, 1)
    IN  AppendTrace(f6, Scatter(<<>>, c, "Estimated coef"), 2, 1)

NoSweepFig == MakeSubplots(0, 0)

\* the cell has not run
SweepIdle ==
    /\ spc = "idle"
    /\ enet = NewEnet
    /\ train_errors = <<>>
    /\ test_errors = <<>>
    /\ sweep_i = 0
    /\ alpha_optim = 0
    /\ coef_ = NoCoef
    /\ scored = <<>>
    /\ sweep_fig = NoSweepFig

\* the gallery cell has not run
GalleryIdle ==
    /\ img = <<>>
    /\ row_it = 0
    /\ col_it = 0
    /\ ix = 0
    /\ iy = 0
    /\ used = <<>>
    /\ gpc = "idle"

Locals ==
    /\ Xn = <<>>
    /\ anno = <<>>
    /\ shown_images = <<>>
    /\ it = 0
    /\ i = 0
    /\ x_ = <<>>
    /\ y_ = <<>>
    /\ bound = FALSE
    /\ kept = <<>>
    /\ tested = <<>>
    /\ fig = NoFig
    /\ err = ""

Init ==
    /\ X \in Matrices
    /\ digits \in DigitsRows
    /\ target = DatasetOrder(digits)
    /\ y = target
    /\ pc = "ready"
    /\ Locals
    /\ calls = 0
    /\ prev = NoPrev
    /\ SweepIdle
    /\ GalleryIdle

----------------------------------------------------------------------------
(* plot_embedding, statement by statement *)

\* lines 502-505
Call ==
    /\ pc = "ready"
    /\ Xn' = Normalized(X)
    /\ anno' = <<>>
    /\ it' = 0
    /\ pc' = "anno"
    /\ calls' = calls + 1
    /\ X' = ArgAfterCall(X)
    /\ UNCHANGED <<digits, target, y, shown_images, i, x_, y_, bound, kept,
                   tested, fig, err, prev>>
    /\ UNCHANGED sweep_vars
    /\ UNCHANGED gallery_vars

\* lines 507-513, one iteration
AnnoStep ==
    /\ pc = "anno"
    /\ it < AnnoRange(Xn)
    /\ it < digits
    /\ it < Len(y)
    /\ i' = it
    /\ anno' = Append(anno, AnnoOf(Xn, target, y, it))
    /\ it' = it + 1
    /\ UNCHANGED <<X, digits, target, y, pc, Xn, shown_images, x_, y_, bound,
                   kept, fig, err, calls, prev, tested>>
    /\ UNCHANGED sweep_vars
    /\ UNCHANGED gallery_vars

\* lines 508 and 512: digits.target[i] or y[i] with i out of range
AnnoIndexError ==
    /\ pc = "anno"
    /\ it < AnnoRange(Xn)
    /\ (it >= digits \/ it >= Len(y))
    /\ i' = it
    /\ pc' = "error"
    /\ err' = "IndexError"
    /\ UNCHANGED <<X, digits, target, y, Xn, anno, shown_images, it, x_, y_,
                   bound, kept, fig, calls, prev, tested>>
    /\ UNCHANGED sweep_vars
    /\ UNCHANGED gallery_vars

\* line 515, after the annotation loop is exhausted
AnnoDone ==
    /\ pc = "anno"
    /\ it = AnnoRange(Xn)
    /\ shown_images' = NewShown(prev)
    /\ it' = 0
    /\ pc' = "scan"
    /\ UNCHANGED <<X, digits, target, y, Xn, anno, i, x_, y_, bound, kept,
                   fig, err, calls, prev, tested>>
    /\ UNCHANGED sweep_vars
    /\ UNCHANGED gallery_vars

\* lines 517-521: the row is too close to a shown point
ScanSkip ==
    /\ pc = "scan"
    /\ it < ScanRange(Xn, digits)
    /\ it < Len(Xn)
    /\ TooClose(Xn[it + 1], shown_images)
    /\ i' = it
    /\ tested' = Append(tested, it)
    /\ it' = it + 1
    /\ UNCHANGED <<X, digits, target, y, pc, Xn, anno, shown_images, x_, y_,
                   bound, kept, fig, err, calls, prev>>
    /\ UNCHANGED sweep_vars
    /\ UNCHANGED gallery_vars

\* lines 517-531: the row is shown; x_ and y_ are rebuilt from shown_images
\* by the inner loop, which leaves i at len(shown_images) - 1
ScanKeep ==
    /\ pc = "scan"
    /\ it < ScanRange(Xn, digits)
    /\ it < Len(Xn)
    /\ ~TooClose(Xn[it + 1], shown_images)
    /\ shown_images' = Append(shown_images, Xn[it + 1])
    /\ x_' = [k \in 1..InnerRange(shown_images') |-> shown_images'[k][1]]
    /\ y_' = [k \in 1..InnerRange(shown_images') |-> shown_images'[k][2]]
    /\ bound' = TRUE
    /\ i' = InnerRange(shown_images') - 1
    /\ kept' = Append(kept, it)
    /\ tested' = Append(tested, it)
    /\ it' = it + 1
    /\ UNCHANGED <<X, digits, target, y, pc, Xn, anno, fig, err, calls, prev>>
    /\ UNCHANGED sweep_vars
    /\ UNCHANGED gallery_vars

\* line 518: X[i] with i out of range
ScanIndexError ==
    /\ pc = "scan"
    /\ it < ScanRange(Xn, digits)
    /\ it >= Len(Xn)
    /\ i' = it
    /\ pc' = "error"
    /\ err' = "IndexError"
    /\ UNCHANGED <<X, digits, target, y, Xn, anno, shown_images, it, x_, y_,
                   bound, kept, fig, calls, prev, tested>>
    /\ UNCHANGED sweep_vars
    /\ UNCHANGED gallery_vars

\* lines 533-546
BuildFigure ==
    /\ pc = "scan"
    /\ it = ScanRange(Xn, digits)
    /\ IF bound
       THEN /\ fig' = [data |-> <<[x |-> x_, y |-> y_]>>,
                       layout |-> [annotations |-> anno]]
            /\ pc' = "done"
            /\ err' = err
       ELSE /\ fig' = fig
            /\ pc' = "error"
            /\ err' = "UnboundLocalError"
    /\ UNCHANGED <<X, digits, target, y, Xn, anno, shown_images, it, i, x_,
                   y_, bound, kept, calls, prev, tested>>
    /\ UNCHANGED sweep_vars
    /\ UNCHANGED gallery_vars

\* a further call with the same X; the locals of the finished call are gone
Rerun ==
    /\ pc \in {"done", "error"}
    /\ calls < MaxRuns
    /\ prev' = [pc |-> pc, fig |-> fig, err |-> err, kept |-> kept,
                shown_images |-> shown_images]
    /\ pc' = "ready"
    /\ Xn' = <<>>
    /\ anno' = <<>>
    /\ shown_images' = <<>>
    /\ it' = 0
    /\ i' = 0
    /\ x_' = <<>>
    /\ y_' = <<>>
    /\ bound' = FALSE
    /\ kept' = <<>>
    /\ tested' = <<>>
    /\ fig' = NoFig
    /\ err' = ""
    /\ UNCHANGED <<X, digits, target, y, calls>>
    /\ UNCHANGED sweep_vars
    /\ UNCHANGED gallery_vars

Next ==
    \/ Call
    \/ AnnoStep
    \/ AnnoIndexError
    \/ AnnoDone
    \/ ScanSkip
    \/ ScanKeep
    \/ ScanIndexError
    \/ BuildFigure
    \/ Rerun

Spec == Init /\ [][Next]_vars

----------------------------------------------------------------------------
(* Calls with arbitrary labels in the globals *)

Labels == {0, 1, 10}

PtsSmall == { <<F(0), F(0)>>, <<F(1), F(1)>>, <<F(50), F(50)>> }

MatricesSmall == UNION { [1..n -> PtsSmall] : n \in 1..MaxN }

InitLabels ==
    /\ X \in MatricesSmall
    /\ digits \in DigitsRows
    /\ target \in [1..digits -> Labels]
    /\ y = target
    /\ pc = "ready"
    /\ Locals
    /\ calls = 0
    /\ prev = NoPrev
    /\ SweepIdle
    /\ GalleryIdle

SpecLabels == InitLabels /\ [][Next]_vars

----------------------------------------------------------------------------
(* Calls between which the notebook globals are rebound *)

InitGlobals ==
    /\ X \in MatricesSmall
    /\ digits \in DigitsRows
    /\ target = DatasetOrder(digits)
    /\ y = target
    /\ pc = "ready"
    /\ Locals
    /\ calls = 0
    /\ prev = NoPrev
    /\ SweepIdle
    /\ GalleryIdle

\* lines 479-481 run again between two calls: digits and y name another
\* dataset
ChangeGlobals ==
    /\ pc = "ready"
    /\ calls >= 1
    /\ \E d \in DigitsRows :
          \E t \in {DatasetOrder(d)} \cup {[k \in 1..d |-> l] : l \in Labels} :
              /\ digits' = d
              /\ target' = t
              /\ y' = t
    /\ UNCHANGED <<X, pc, Xn, anno, shown_images, it, i, x_, y_, bound, kept,
                   tested, fig, err, calls, prev>>
    /\ UNCHANGED sweep_vars
    /\ UNCHANGED gallery_vars

NextGlobals ==
    \/ Next
    \/ ChangeGlobals

SpecGlobals == InitGlobals /\ [][NextGlobals]_vars

----------------------------------------------------------------------------
(* The cell "Compute train and test errors" (lines 140-156) *)

InitSweep ==
    /\ X = << <<F(0), F(0)>> >>
    /\ digits = 1
    /\ target = DatasetOrder(digits)
    /\ y = target
    /\ pc = "ready"
    /\ Locals
    /\ calls = 0
    /\ prev = NoPrev
    /\ spc = "for"
    /\ enet = NewEnet
    /\ train_errors = <<>>
    /\ test_errors = <<>>
    /\ sweep_i = 0
    /\ alpha_optim = 0
    /\ coef_ = NoCoef
    /\ scored = <<>>
    /\ sweep_fig = NoSweepFig
    /\ GalleryIdle

\* lines 144-145: the next alpha, enet.set_params(alpha=alpha)
SweepSetParams ==
    /\ spc = "for"
    /\ sweep_i < Len(alphas)
    /\ enet' = SetParams(enet, alphas[sweep_i + 1])
    /\ sweep_i' = sweep_i + 1
    /\ spc' = "fit"
    /\ UNCHANGED <<train_errors, test_errors, alpha_optim, coef_, scored,
                   sweep_fig>>
    /\ UNCHANGED plot_vars
    /\ UNCHANGED gallery_vars

\* line 146
SweepFit ==
    /\ spc = "fit"
    /\ enet' = Fit(enet, "train")
    /\ spc' = "score"
    /\ UNCHANGED <<train_errors, test_errors, sweep_i, alpha_optim, coef_,
                   scored, sweep_fig>>
    /\ UNCHANGED plot_vars
    /\ UNCHANGED gallery_vars

\* lines 147-148: the two scores of the fitted estimator
SweepScore ==
    /\ spc = "score"
    /\ \E a, b \in Scores :
          /\ train_errors' = Append(train_errors, a)
          /\ test_errors' = Append(test_errors, b)
    /\ scored' = Append(scored, [alpha |-> enet.fit_alpha,
                                  data |-> enet.fit_data])
    /\ spc' = "for"
    /\ UNCHANGED <<enet, sweep_i, alpha_optim, coef_, sweep_fig>>
    /\ UNCHANGED plot_vars
    /\ UNCHANGED gallery_vars

\* lines 150-155, after the loop is exhausted
SweepOptimum ==
    /\ spc = "for"
    /\ sweep_i = Len(alphas)
    /\ alpha_optim' = alphas[ArgMax(test_errors) + 1]
    /\ enet' = SetParams(enet, alpha_optim')
    /\ spc' = "final"
    /\ UNCHANGED <<train_errors, test_errors, sweep_i, coef_, scored,
                   sweep_fig>>
    /\ UNCHANGED plot_vars
    /\ UNCHANGED gallery_vars

\* line 156: coef_ = enet.fit(X, y).coef_
SweepFinalFit ==
    /\ spc = "final"
    /\ enet' = Fit(enet, "full")
    /\ coef_' = [alpha |-> enet'.fit_alpha, data |-> enet'.fit_data]
    /\ spc' = "end"
    /\ UNCHANGED <<train_errors, test_errors, sweep_i, alpha_optim, scored,
                   sweep_fig>>
    /\ UNCHANGED plot_vars
    /\ UNCHANGED gallery_vars

\* lines 185-224: the cells under "Plot Results"
SweepPlot ==
    /\ spc = "end"
    /\ sweep_fig' = PlotResults(alphas, train_errors, test_errors, alpha_optim,
                                coef_)
    /\ spc' = "plotted"
    /\ UNCHANGED <<enet, train_errors, test_errors, sweep_i, alpha_optim,
                   coef_, scored>>
    /\ UNCHANGED plot_vars
    /\ UNCHANGED gallery_vars

NextSweep ==
    \/ SweepSetParams
    \/ SweepFit
    \/ SweepScore
    \/ SweepOptimum
    \/ SweepFinalFit
    \/ SweepPlot

SpecSweep == InitSweep /\ [][NextSweep]_vars

----------------------------------------------------------------------------
(* The cell "Plot Images of the Digits" (lines 564-570); X is digits.data *)

\* n_img_per_row = 20
n_img_per_row == 20

\* the 10 of 10 * n_img_per_row, 10 * i + 1 and 10 * j + 1
TilePitch == 10

\* the 8 of ix:ix + 8 and of reshape((8, 8))
TileSide == 8

\* X.shape of load_digits(n_class=6): 1083 samples of 64 features
n_samples == 1083

n_features == 64

\* X[s]: the 64 pixels of sample s (0-based), held as distinct non-zero
\* tokens, so that a cell of img tells which pixel of which sample it holds
Sample(s) == [q \in 1..n_features |-> s * n_features + q]

\* v.reshape((side, side)): row-major
Reshape(v, side) ==
    [r \in 1..side |-> [c \in 1..side |-> v[side * (r - 1) + c]]]

\* np.zeros((n, n))
Zeros(n) == [r \in 1..n |-> [c \in 1..n |-> 0]]

\* the indices (0-based) selected by the slice lo:hi of an axis of length n:
\* a slice is clipped to the axis
SliceOf(lo, hi, n) == {k \in lo..(hi - 1) : k < n}

\* 10 * i + 1
TileStart(k) == TilePitch * k + 1

\* i * 10 + j
SampleIndexByPitch(a, b) == a * TilePitch + b

\* i * n_img_per_row + j
SampleIndex(a, b) == a * n_img_per_row + b

\* a[r0:r0 + side, c0:c0 + side] = tile, for a slice that is not clipped
SliceAssign(a, r0, c0, tile) ==
    [r \in 1..Len(a) |->
        [c \in 1..Len(a[r]) |->
            IF /\ r - 1 \in r0..(r0 + Len(tile) - 1)
               /\ c - 1 \in c0..(c0 + Len(tile) - 1)
            THEN tile[r - r0][c - c0]
            ELSE a[r][c]]]

\* lines 564-565 have run
InitGallery ==
    /\ X = << <<F(0), F(0)>> >>
    /\ digits = 1
    /\ target = DatasetOrder(digits)
    /\ y = target
    /\ pc = "ready"
    /\ Locals
    /\ calls = 0
    /\ prev = NoPrev
    /\ SweepIdle
    /\ img = Zeros(TilePitch * n_img_per_row)
    /\ row_it = 0
    /\ col_it = 0
    /\ ix = 0
    /\ iy = 0
    /\ used = <<>>
    /\ gpc = "outer"

\* lines 566-567: the next i
GalleryOuter ==
    /\ gpc = "outer"
    /\ row_it < n_img_per_row
    /\ ix' = TileStart(row_it)
    /\ row_it' = row_it + 1
    /\ col_it' = 0
    /\ gpc' = "inner"
    /\ UNCHANGED <<img, iy, used>>
    /\ UNCHANGED <<plot_vars, sweep_vars>>

\* lines 568-570: the next j; X[...] raises IndexError past the last sample,
\* and the assignment raises ValueError when the clipped slice is not 8 x 8
GalleryTile ==
    /\ gpc = "inner"
    /\ col_it < n_img_per_row
    /\ iy' = TileStart(col_it)
    /\ col_it' = col_it + 1
    /\ LET s == SampleIndex(row_it - 1, col_it)
           rows == SliceOf(ix, ix + TileSide, Len(img))
           cols == SliceOf(iy', iy' + TileSide, Len(img))
       IN  IF s >= n_samples
           THEN /\ gpc' = "IndexError"
                /\ UNCHANGED <<img, used>>
           ELSE IF Cardinality(rows) # TileSide \/ Cardinality(cols) # TileSide
           THEN /\ gpc' = "ValueError"
                /\ used' = Append(used, s)
                /\ img' = img
           ELSE /\ gpc' = gpc
                /\ used' = Append(used, s)
                /\ img' = SliceAssign(img, ix, iy',
                                      Reshape(Sample(s), TileSide))
    /\ UNCHANGED <<row_it, ix>>
    /\ UNCHANGED <<plot_vars, sweep_vars>>

\* the loop over j is exhausted
GalleryRowDone ==
    /\ gpc = "inner"
    /\ col_it = n_img_per_row
    /\ gpc' = "outer"
    /\ UNCHANGED <<img, row_it, col_it, ix, iy, used>>
    /\ UNCHANGED <<plot_vars, sweep_vars>>

\* the loop over i is exhausted
GalleryDone ==
    /\ gpc = "outer"
    /\ row_it = n_img_per_row
    /\ gpc' = "done"
    /\ UNCHANGED <<img, row_it, col_it, ix, iy, used>>
    /\ UNCHANGED <<plot_vars, sweep_vars>>

NextGallery ==
    \/ GalleryOuter
    \/ GalleryTile
    \/ GalleryRowDone
    \/ GalleryDone

SpecGallery == InitGallery /\ [][NextGallery]_vars

----------------------------------------------------------------------------
(* Vocabulary of the properties *)

N == Len(X)

InUnit(c) == ~IsNaN(c) /\ 0 <= c.n /\ c.n <= c.d

StrictlyInside(c) == ~IsNaN(c) /\ 0 < c.n /\ c.n < c.d

Finite(M) == \A k \in 1..Len(M) : ~IsNaN(M[k][1]) /\ ~IsNaN(M[k][2])

\* no nan and max > min in both columns
NonDegenerate(M) ==
    /\ Finite(M)
    /\ FracLess(x_min(M)[1], x_max(M)[1])
    /\ FracLess(x_min(M)[2], x_max(M)[2])

\* f > 4e-3 and f = 4e-3, written independently of LessThresh
GreaterThresh(f) == ~IsNaN(f) /\ f.n > (ThreshNum * f.d) \div ThreshDen

EqThresh(f) ==
    /\ ~IsNaN(f)
    /\ (ThreshNum * f.d) % ThreshDen = 0
    /\ f.n = (ThreshNum * f.d) \div ThreshDen

Trace == fig.data[1]

IsKept(r) == \E k \in 1..Len(kept) : kept[k] = r

AllRows == [k \in 1..N |-> k - 1]

\* rows the scan has examined so far
Scanned == IF pc \in {"scan", "done"} THEN {r \in 0..(N - 1) : r < it} ELSE {}

\* the contents of shown_images when row r was examined
ShownBefore(r) ==
    LET before == SelectSeq(kept, LAMBDA q : q < r)
    IN  <<Sentinel>> \o [k \in 1..Len(before) |-> Xn[before[k] + 1]]

MinDistBefore(r) == np_min(Dist(Xn[r + 1], ShownBefore(r)))

\* the reference greedy filter: empty kept set, rows in order, a row is kept
\* exactly when its squared distance to every kept row exceeds the threshold
RECURSIVE RefKeptFrom(_, _, _)
RefKeptFrom(M, r, acc) ==
    IF r >= Len(M) THEN acc
    ELSE IF \A k \in 1..Len(acc) : GreaterThresh(Dist2(M[r + 1], M[acc[k] + 1]))
         THEN RefKeptFrom(M, r + 1, Append(acc, r))
         ELSE RefKeptFrom(M, r + 1, acc)

RefKept(M) == RefKeptFrom(M, 0, <<>>)

AllPairsFar(M) ==
    \A a, b \in 1..Len(M) : a < b => GreaterThresh(Dist2(M[a], M[b]))

\* first position of row r's point in the marker trace (0 if absent)
TracePos(r) ==
    LET hits == {p \in 1..Len(Trace.x) :
                    Trace.x[p] = Xn[r + 1][1] /\ Trace.y[p] = Xn[r + 1][2]}
    IN  IF hits = {} THEN 0 ELSE CHOOSE p \in hits : \A q \in hits : p <= q

----------------------------------------------------------------------------
(* Properties *)

\* C1: for X with N >= 2 rows and max > min in both columns, every
\* coordinate of the returned figure (annotations and marker trace) lies in
\* [0, 1].
C1_CoordsInUnit ==
    (pc = "done" /\ N >= 2 /\ NonDegenerate(X)) =>
        /\ \A k \in 1..Len(fig.layout.annotations) :
              /\ InUnit(fig.layout.annotations[k].x)
              /\ InUnit(fig.layout.annotations[k].y)
        /\ \A k \in 1..Len(Trace.x) : InUnit(Trace.x[k])
        /\ \A k \in 1..Len(Trace.y) : InUnit(Trace.y[k])

C1_Witness ==
    /\ pc = "done"
    /\ N >= 3
    /\ NonDegenerate(X)
    /\ x_min(X)[1].n > 0
    /\ Len(kept) >= 2
    /\ \E k \in 1..Len(Trace.x) : StrictlyInside(Trace.x[k])
    /\ \E k \in 1..N : StrictlyInside(fig.layout.annotations[k].y)

\* C2: the returned layout carries exactly N annotations, whichever rows the
\* scan keeps or drops.
C2_AnnotationCount ==
    pc = "done" => Len(fig.layout.annotations) = N

C2_Witness ==
    /\ pc = "done"
    /\ Len(fig.layout.annotations) = N
    /\ Len(kept) >= 1
    /\ Len(kept) < N

\* C3 (as claimed): the rows kept are those of the reference greedy filter,
\* which starts from an empty kept set.
C3_KeptIsReference ==
    (pc = "done" /\ NonDegenerate(X)) => kept = RefKept(Xn)

\* C4 (as claimed): the figure has one marker trace and the trace holds one
\* point per kept row and no other point.
C4_TraceIsKeptRows ==
    pc = "done" =>
        /\ Len(fig.data) = 1
        /\ Len(Trace.x) = Len(kept)
        /\ Len(Trace.y) = Len(kept)
        /\ \A k \in 1..Len(kept) :
              /\ Trace.x[k] = Xn[kept[k] + 1][1]
              /\ Trace.y[k] = Xn[kept[k] + 1][2]

\* C5 (as claimed): when every pairwise squared distance of the normalised
\* rows exceeds the threshold, every row is kept.
C5_FarRowsAllKept ==
    (pc = "done" /\ AllPairsFar(Xn)) => kept = AllRows

\* C6 (as claimed): kept rows appear in the trace in first-seen order and
\* nothing precedes the point of the lowest-indexed kept row.
C6_FirstSeenOrder ==
    (pc = "done" /\ NonDegenerate(X)) =>
        /\ \A a, b \in 1..Len(kept) :
              a < b => TracePos(kept[a]) < TracePos(kept[b])
        /\ Len(kept) > 0 => TracePos(kept[1]) = 1

\* C7: a second call on the same X ends as the first one did: same outcome,
\* same kept rows in the same order, same figure.
C7_SameResultOnRerun ==
    (pc \in {"done", "error"} /\ prev.pc # "none") =>
        /\ prev.pc = pc
        /\ prev.kept = kept
        /\ prev.fig = fig
        /\ prev.err = err

C7_Witness ==
    /\ pc = "done"
    /\ prev.pc = "done"
    /\ prev.kept = kept
    /\ Len(kept) >= 2
    /\ Len(kept) < N

\* C8 (as claimed): a row whose minimum squared distance to the shown points
\* equals the threshold is not kept; a kept row is strictly farther.
C8_EqualIsDropped ==
    \A r \in Scanned :
        /\ EqThresh(MinDistBefore(r)) => ~IsKept(r)
        /\ IsKept(r) => GreaterThresh(MinDistBefore(r)) \/ IsNaN(MinDistBefore(r))

\* C8 (amended): a row is dropped only when its minimum squared distance to
\* the points of shown_images is strictly less than the threshold; a row at
\* exactly the threshold is kept.
C8_DroppedOnlyWhenStrictlyLess ==
    \A r \in Scanned :
        LET m == MinDistBefore(r)
        IN  IsKept(r) <=> (IsNaN(m) \/ EqThresh(m) \/ GreaterThresh(m))

C8_Witness ==
    /\ pc = "done"
    /\ \E r \in Scanned : EqThresh(MinDistBefore(r)) /\ IsKept(r)
    /\ \E r \in Scanned : ~IsKept(r)

\* C9 (as claimed): row 0 is kept wherever it lies.
C9_RowZeroKept ==
    (pc \in {"scan", "done"} /\ it >= 1) => IsKept(0)

AtLeastThresh(f) == EqThresh(f) \/ GreaterThresh(f)

\* a = b as numbers
FracEq(a, b) == ~IsNaN(a) /\ ~IsNaN(b) /\ a.n * b.d = b.n * a.d

ConstantColumn(M, c) == \A k \in 1..Len(M) : M[k][c] = M[1][c]

\* both columns have minimum 0 and maximum 1
ZeroOne(M) ==
    \A c \in 1..2 :
        /\ FracEq(x_min(M)[c], F(0))
        /\ FracEq(x_max(M)[c], F(1))

FinitePoint(p) == ~IsNaN(p[1]) /\ ~IsNaN(p[2])

Color(k) == fig.layout.annotations[k].font.color

\* C11 (as claimed): with a constant column (N = 1 included) normalisation
\* does not divide by zero and yields a defined coordinate for that column.
C11_ConstantColumnDefined ==
    (pc # "ready" /\ Finite(X)) =>
        \A c \in 1..2 :
            ConstantColumn(X, c) => \A k \in 1..Len(Xn) : ~IsNaN(Xn[k][c])

\* C12 (as claimed): two calls with the same X return the same figure
\* whatever the globals digits and y hold at the time of each call.
C12_SameFigureWhateverGlobals ==
    (pc \in {"done", "error"} /\ prev.pc # "none") =>
        /\ prev.pc = pc
        /\ prev.fig = fig

\* C13: annotation i of the returned layout, for kept and suppressed rows
\* alike, sits at the normalised coordinate of row i and shows the label of
\* row i; annotations are in row order.
C13_AnnotationPerRow ==
    pc = "done" =>
        /\ Len(fig.layout.annotations) = N
        /\ \A k \in 1..N :
              /\ fig.layout.annotations[k].x = Xn[k][1]
              /\ fig.layout.annotations[k].y = Xn[k][2]
              /\ fig.layout.annotations[k].text = Str(target[k])

C13_Witness ==
    /\ pc = "done"
    /\ N >= 3
    /\ \E k \in 1..N :
          /\ ~IsKept(k - 1)
          /\ target[k] = 10
          /\ fig.layout.annotations[k].text = "10"
    /\ \E k \in 1..N : IsKept(k - 1) /\ target[k] # k - 1

\* C14 (as claimed): the font colour of annotation i is the palette entry at
\* index label modulo palette size; different labels below the palette size
\* get different colours, labels equal modulo the palette size the same.
C14_PaletteModulo ==
    pc = "done" =>
        /\ \A k \in 1..N : Color(k) = y[k] % Set1N
        /\ \A a, b \in 1..N :
              (y[a] # y[b] /\ y[a] < Set1N /\ y[b] < Set1N)
                  => Color(a) # Color(b)
        /\ \A a, b \in 1..N :
              y[a] % Set1N = y[b] % Set1N => Color(a) = Color(b)

\* C14 (amended): the colour is the Set1 colormap evaluated at label / 10,
\* with no modulo: equal labels get equal colours, a larger label never an
\* earlier colour, and every label of 10 or more the last colour.
C14_ColormapOfLabelOverTen ==
    pc = "done" =>
        /\ \A k \in 1..N : y[k] >= 10 => Color(k) = Set1N - 1
        /\ \A k \in 1..N : y[k] = 0 => Color(k) = 0
        /\ \A a, b \in 1..N : y[a] = y[b] => Color(a) = Color(b)
        /\ \A a, b \in 1..N : y[a] <= y[b] => Color(a) <= Color(b)

C14_Witness ==
    /\ pc = "done"
    /\ \E a, b \in 1..N :
          /\ y[a] = 1
          /\ y[b] = 10
          /\ Color(a) # Color(b)

\* C15: normalisation changes no coordinate of an X whose columns already
\* have minimum 0 and maximum 1, and normalising a normalised non-degenerate
\* X again changes no coordinate.
C15_NormalizeIdempotent ==
    (pc # "ready" /\ NonDegenerate(X)) =>
        LET again == Normalized(Xn)
        IN  /\ ZeroOne(Xn)
            /\ \A k \in 1..N : \A c \in 1..2 : FracEq(again[k][c], Xn[k][c])
            /\ ZeroOne(X) => \A k \in 1..N : \A c \in 1..2 :
                                FracEq(Xn[k][c], X[k][c])

C15_Witness ==
    /\ pc = "done"
    /\ NonDegenerate(X)
    /\ ~ZeroOne(X)
    /\ \E k \in 1..N :
          /\ StrictlyInside(Xn[k][1])
          /\ ~FracEq(Xn[k][1], X[k][1])
          /\ FracEq(Normalized(Xn)[k][1], Xn[k][1])

\* C16: no step of a call changes the caller's matrix X, the label vector or
\* the global dataset.
C16_ArgumentsUnchanged ==
    [][X' = X /\ digits' = digits /\ target' = target /\ y' = y]_vars

C16_Witness ==
    /\ pc = "done"
    /\ NonDegenerate(X)
    /\ Xn # X
    /\ Len(kept) >= 1
    /\ Len(kept) < N

\* C17 (as claimed): for an X of any row count, also one different from the
\* row count of the digits dataset, the scan tests every row 0..N-1 once, in
\* increasing order, and then ends.
C17_ScanCoversEveryRow ==
    pc \in {"done", "error"} => (pc = "done" /\ tested = AllRows)

C20_TraceListsMatchShown ==
    pc = "done" =>
        /\ Len(x_) = Len(shown_images)
        /\ Len(y_) = Len(shown_images)
        /\ \A k \in 1..Len(shown_images) :
              /\ x_[k] = shown_images[k][1]
              /\ y_[k] = shown_images[k][2]
        /\ Trace.x = x_
        /\ Trace.y = y_
        /\ \A k \in 1..Len(kept) :
              \E p \in 1..Len(x_) :
                  x_[p] = Xn[kept[k] + 1][1] /\ y_[p] = Xn[kept[k] + 1][2]

C20_Witness ==
    /\ pc = "done"
    /\ Len(kept) >= 2
    /\ ~IsKept(N - 1)
    /\ Len(x_) = Len(kept) + 1

\* C19: coef_ comes from a fit on the full data with alpha = alpha_optim;
\* the last alpha of the sweep is used only when it is the optimum.
C19_FinalFitUsesOptimum ==
    spc = "end" =>
        /\ coef_.data = "full"
        /\ coef_.alpha = alpha_optim
        /\ \E k \in 1..Len(alphas) :
              /\ alpha_optim = alphas[k]
              /\ \A j \in 1..Len(test_errors) : test_errors[j] <= test_errors[k]
        /\ coef_.alpha = alphas[Len(alphas)] => alpha_optim = alphas[Len(alphas)]

C19_Witness ==
    /\ spc = "end"
    /\ coef_.data = "full"
    /\ coef_.alpha = alpha_optim
    /\ alpha_optim # alphas[Len(alphas)]
    /\ alpha_optim # alphas[1]

\* C21: for X with at least two rows and max > min in both columns, a call
\* ends with a figure whose marker trace was built from bound x_ and y_, the
\* scan having kept at least one row of X.
C21_KeepsARowAndReturns ==
    (N >= 2 /\ NonDegenerate(X) /\ pc \in {"done", "error"}) =>
        /\ pc = "done"
        /\ err # "UnboundLocalError"
        /\ bound
        /\ kept # <<>>
        /\ fig # NoFig

\* C22: after the sweep the two lists hold one score per alpha, taken in
\* alphas order from the estimator fitted with that alpha on the train data,
\* and alpha_optim is alphas at the least index whose test score is the
\* largest, hence an element of alphas.
C22_OneScorePerAlpha ==
    /\ Len(train_errors) = Len(test_errors)
    /\ Len(scored) = Len(test_errors)
    /\ spc \in {"final", "end", "plotted"} =>
          /\ Len(train_errors) = Len(alphas)
          /\ \A k \in 1..Len(alphas) :
                scored[k] = [alpha |-> alphas[k], data |-> "train"]
          /\ \E k \in 1..Len(alphas) :
                /\ alpha_optim = alphas[k]
                /\ \A j \in 1..Len(alphas) : test_errors[j] <= test_errors[k]
                /\ \A j \in 1..(k - 1) : test_errors[j] < test_errors[k]
          /\ alpha_optim \in {alphas[k] : k \in 1..Len(alphas)}

C22_Witness ==
    /\ spc = "end"
    /\ Len(test_errors) = Len(alphas)
    /\ alpha_optim = alphas[2]
    /\ test_errors[1] < test_errors[2]
    /\ test_errors[Len(alphas)] = test_errors[2]

\* C23: in the train/test figure every trace drawn over alphas has its x
\* axis titled 'Regularization parameter' and log-scaled, and its y axis,
\* along which the scores run, titled 'Performance'.
C23_AxisTitlesMatchData ==
    spc = "plotted" =>
        \A k \in 1..Len(sweep_fig.data) :
            LET t == sweep_fig.data[k]
            IN  t.x = alphas =>
                  /\ t.y \in {train_errors, test_errors}
                  /\ sweep_fig.xaxis[t.axis].type = "log"
                  /\ sweep_fig.xaxis[t.axis].title = "Regularization parameter"
                  /\ sweep_fig.yaxis[t.axis].title = "Performance"

\* the tile of (a, b) has been written
TileWritten(a, b) == a < row_it - 1 \/ (a = row_it - 1 /\ b < col_it)

\* C24: for i, j in 0..19 the 8x8 image of sample 20*i+j is in rows
\* 10*i+1..10*i+8 and columns 10*j+1..10*j+8 of the 200x200 array img, once
\* written; every tile lies inside the array, tiles of distinct (i, j) are
\* disjoint, and each sample index 0..399 is used exactly once.
C24_TilesInPlace ==
    /\ gpc \notin {"idle", "IndexError", "ValueError"}
    /\ Len(img) = 200
    /\ \A r \in 1..200 : Len(img[r]) = 200
    /\ \A a, b \in 0..19 :
          /\ 10 * a + 1 >= 0 /\ 10 * a + 8 <= 199
          /\ 10 * b + 1 >= 0 /\ 10 * b + 8 <= 199
          /\ TileWritten(a, b) =>
                LET image == Sample(20 * a + b)
                IN  \A r, c \in 0..7 :
                        img[10 * a + 1 + r + 1][10 * b + 1 + c + 1]
                            = image[8 * r + c + 1]
    /\ \A k \in 1..Len(used) : used[k] = k - 1
    /\ gpc = "done" =>
          /\ \A s \in 0..399 :
                Cardinality({k \in 1..Len(used) : used[k] = s}) = 1
          /\ \A a, b, c, d \in 0..19 :
                <<a, b>> # <<c, d>> =>
                    \/ ((10 * a + 1)..(10 * a + 8))
                           \cap ((10 * c + 1)..(10 * c + 8)) = {}
                    \/ ((10 * b + 1)..(10 * b + 8))
                           \cap ((10 * d + 1)..(10 * d + 8)) = {}

C24_Witness ==
    /\ gpc = "done"
    /\ Len(used) = 400
    /\ img[199][199] = Sample(399)[64]
    /\ img[2][2] = Sample(0)[1]
    /\ img[1][1] = 0

====
